---------------------------- MODULE Spec2Model ----------------------------
(***************************************************************************)
(* Model of the presigned-URL signing code of s3_uploader/streamlit_app.py *)
(* (get_signing_key, generate_presigned_url).                              *)
(*                                                                         *)
(* Python str values are TLA+ strings.  The hash primitives are symbolic:  *)
(* a digest is the text of the term that produced it, so that a digest     *)
(* determines the key and the message it was computed from (the keyed hash *)
(* is injective on the bounded inputs).  hexdigest() really hex-encodes    *)
(* the bytes of that text, quote() really percent-encodes, strftime()      *)
(* really formats the clock and sorted() really sorts by code point.       *)
(***************************************************************************)
EXTENDS Integers, Sequences, FiniteSets, TLC

(* ------------------------------ bounds -------------------------------- *)

\* number of seconds the wall clock may advance during a behaviour
MaxTicks == 1

(* ------------------------- characters and bytes ------------------------ *)

\* ord(c) for the characters that occur in the model.  The character "�"
\* stands for a lone surrogate (code point 55296), which a module's text
\* cannot contain: it is the one character str.encode(utf-8) rejects.
ord ==
    " " :> 32 @@ "!" :> 33 @@ "\"" :> 34 @@ "#" :> 35 @@ "$" :> 36 @@ "%" :> 37 @@
    "&" :> 38 @@ "'" :> 39 @@ "(" :> 40 @@ ")" :> 41 @@ "*" :> 42 @@ "+" :> 43 @@
    "," :> 44 @@ "-" :> 45 @@ "." :> 46 @@ "/" :> 47 @@ "0" :> 48 @@ "1" :> 49 @@
    "2" :> 50 @@ "3" :> 51 @@ "4" :> 52 @@ "5" :> 53 @@ "6" :> 54 @@ "7" :> 55 @@
    "8" :> 56 @@ "9" :> 57 @@ ":" :> 58 @@ ";" :> 59 @@ "<" :> 60 @@ "=" :> 61 @@
    ">" :> 62 @@ "?" :> 63 @@ "@" :> 64 @@ "A" :> 65 @@ "B" :> 66 @@ "C" :> 67 @@
    "D" :> 68 @@ "E" :> 69 @@ "F" :> 70 @@ "G" :> 71 @@ "H" :> 72 @@ "I" :> 73 @@
    "J" :> 74 @@ "K" :> 75 @@ "L" :> 76 @@ "M" :> 77 @@ "N" :> 78 @@ "O" :> 79 @@
    "P" :> 80 @@ "Q" :> 81 @@ "R" :> 82 @@ "S" :> 83 @@ "T" :> 84 @@ "U" :> 85 @@
    "V" :> 86 @@ "W" :> 87 @@ "X" :> 88 @@ "Y" :> 89 @@ "Z" :> 90 @@ "[" :> 91 @@
    "\\" :> 92 @@ "]" :> 93 @@ "^" :> 94 @@ "_" :> 95 @@ "a" :> 97 @@
    "b" :> 98 @@ "c" :> 99 @@ "d" :> 100 @@ "e" :> 101 @@ "f" :> 102 @@ "g" :> 103 @@
    "h" :> 104 @@ "i" :> 105 @@ "j" :> 106 @@ "k" :> 107 @@ "l" :> 108 @@ "m" :> 109 @@
    "n" :> 110 @@ "o" :> 111 @@ "p" :> 112 @@ "q" :> 113 @@ "r" :> 114 @@ "s" :> 115 @@
    "t" :> 116 @@ "u" :> 117 @@ "v" :> 118 @@ "w" :> 119 @@ "x" :> 120 @@ "y" :> 121 @@
    "z" :> 122 @@ "{" :> 123 @@ "|" :> 124 @@ "}" :> 125 @@ "~" :> 126 @@ "\n" :> 10 @@
    "é" :> 233 @@ "€" :> 8364 @@ "�" :> 55296

\* the i-th character of s, as a string of length 1
CharAt(s, i) == SubSeq(s, i, i)

\* str.encode(utf-8) raises UnicodeEncodeError on a surrogate code point
Encodable(s) == \A i \in 1..Len(s) : ~(ord[CharAt(s, i)] \in 55296..57343)

\* the UTF-8 bytes of one character
Utf8Bytes(c) ==
    LET n == ord[c]
    IN  IF n < 128 THEN <<n>>
        ELSE IF n < 2048 THEN <<192 + (n \div 64), 128 + (n % 64)>>
        ELSE <<224 + (n \div 4096), 128 + ((n \div 64) % 64), 128 + (n % 64)>>

\* two hexadecimal digits of a byte, drawn from the given digit string
HexByte(b, digits) == CharAt(digits, (b \div 16) + 1) \o CharAt(digits, (b % 16) + 1)

\* the concatenation of f[i] for i in lo..hi, computed by halving
RECURSIVE Concat(_, _, _)
Concat(f, lo, hi) ==
    IF lo > hi THEN ""
    ELSE IF lo = hi THEN f[lo]
    ELSE LET mid == (lo + hi) \div 2
         IN  Concat(f, lo, mid) \o Concat(f, mid + 1, hi)

(* ------------------------- urllib.parse.quote -------------------------- *)

\* the characters quote() never encodes; safe='' adds none
AlwaysSafe ==
    {CharAt("ABCDEFGHIJKLMNOPQRSTUVWXYZabcdefghijklmnopqrstuvwxyz0123456789_.-~", i) :
        i \in 1..66}

\* one character as quote(c, safe='') writes it
QuoteChar(c) ==
    IF c \in AlwaysSafe THEN c
    ELSE LET bs == Utf8Bytes(c)
         IN  Concat([i \in 1..Len(bs) |-> "%" \o HexByte(bs[i], "0123456789ABCDEF")], 1, Len(bs))

\* quote(s, safe='')
quote(s) == Concat([i \in 1..Len(s) |-> QuoteChar(CharAt(s, i))], 1, Len(s))

(* ------------------------------ hashing -------------------------------- *)

\* bytes.hex() / hexdigest(): two lowercase hexadecimal digits per byte
HexChar(c) ==
    LET bs == Utf8Bytes(c)
    IN  Concat([i \in 1..Len(bs) |-> HexByte(bs[i], "0123456789abcdef")], 1, Len(bs))

hexdigest(d) == Concat([i \in 1..Len(d) |-> HexChar(CharAt(d, i))], 1, Len(d))

\* hashlib.sha256(msg).digest(), symbolic
sha256(msg) == "sha256(" \o msg \o ")"

\* hmac.new(key, msg, hashlib.sha256).digest(), symbolic
hmac_new(key, msg) == "hmac(" \o key \o "," \o msg \o ")"

(* ------------------------- str, strftime, sorted ----------------------- *)

\* str(n) of an int
RECURSIVE Decimal(_)
Decimal(n) ==
    IF n < 10 THEN CharAt("0123456789", n + 1)
    ELSE Decimal(n \div 10) \o CharAt("0123456789", (n % 10) + 1)

str(n) == IF n < 0 THEN "-" \o Decimal(0 - n) ELSE Decimal(n)

\* a strftime field: n in decimal, zero-padded to width w
RECURSIVE ZeroPad(_, _)
ZeroPad(n, w) ==
    IF Len(Decimal(n)) >= w THEN Decimal(n)
    ELSE "0" \o SubSeq(ZeroPad(n, w - 1), 1, w - 1)

\* datetime.utcnow() when the wall clock has advanced t seconds since the
\* start of the behaviour, which is 2024-01-01 23:59:59 UTC
utcnow(t) ==
    LET total == 86399 + t
    IN  [year   |-> 2024,
         month  |-> 1,
         day    |-> 1 + (total \div 86400),
         hour   |-> (total % 86400) \div 3600,
         minute |-> (total % 3600) \div 60,
         second |-> total % 60]

\* dt.strftime('%Y%m%dT%H%M%SZ')
strftime(dt) ==
    ZeroPad(dt.year, 4) \o ZeroPad(dt.month, 2) \o ZeroPad(dt.day, 2) \o "T" \o
    ZeroPad(dt.hour, 2) \o ZeroPad(dt.minute, 2) \o ZeroPad(dt.second, 2) \o "Z"

\* a < b for Python str: lexicographic by code point
RECURSIVE StrLess(_, _)
StrLess(a, b) ==
    IF b = "" THEN FALSE
    ELSE IF a = "" THEN TRUE
    ELSE IF Head(a) = Head(b) THEN StrLess(Tail(a), Tail(b))
    ELSE ord[Head(a)] < ord[Head(b)]

\* the keys of sorted(d.items()): the keys of d in ascending order
RECURSIVE SortedKeys(_)
SortedKeys(S) ==
    IF S = {} THEN <<>>
    ELSE LET least == CHOOSE k \in S : \A j \in S \ {k} : StrLess(k, j)
         IN  <<least>> \o SortedKeys(S \ {least})

\* sep.join(parts)
RECURSIVE join(_, _)
join(sep, parts) ==
    IF parts = <<>> THEN ""
    ELSE IF Len(parts) = 1 THEN parts[1]
    ELSE parts[1] \o sep \o join(sep, Tail(parts))

(* --------------------------- get_signing_key --------------------------- *)

\* get_signing_key with the region stage and the service stage exchanged
get_signing_key_swapped(secret_key, date, region, service) ==
    LET k_date    == hmac_new("AWS4" \o secret_key, date)
        k_service == hmac_new(k_date, service)
        k_region  == hmac_new(k_service, region)
        k_signing == hmac_new(k_region, "aws4_request")
    IN  k_signing

\* get_signing_key without the service stage
get_signing_key_no_service(secret_key, date, region, service) ==
    LET k_date    == hmac_new("AWS4" \o secret_key, date)
        k_region  == hmac_new(k_date, region)
        k_signing == hmac_new(k_region, "aws4_request")
    IN  k_signing

get_signing_key(secret_key, date, region, service) ==
    LET k_date    == hmac_new("AWS4" \o secret_key, date)
        k_region  == hmac_new(k_date, region)
        k_service == hmac_new(k_region, service)
        k_signing == hmac_new(k_service, "aws4_request")
    IN  k_signing

(* ------------------------ generate_presigned_url ----------------------- *)
(* One definition per statement of the function body.                     *)

\* EncodedKey as quote_plus would write it: a space becomes '+'
EncodedKey_quote_plus(object_key) ==
    Concat([i \in 1..Len(object_key) |->
               IF CharAt(object_key, i) = " " THEN "+"
               ELSE QuoteChar(CharAt(object_key, i))], 1, Len(object_key))

\* encoded_key = quote(object_key, safe='')
EncodedKey(object_key) == quote(object_key)

\* timestamp = datetime.utcnow().strftime('%Y%m%dT%H%M%SZ'), the wall clock
\* having advanced t seconds
Timestamp(t) == strftime(utcnow(t))

\* date = timestamp[:8]
Date(timestamp) == SubSeq(timestamp, 1, 8)

\* credential = f"{access_key}/{date}/{region}/s3/aws4_request"
Credential(access_key, date, region) ==
    access_key \o "/" \o date \o "/" \o region \o "/s3/aws4_request"

\* the query_params dict: a function from parameter names to values
QueryParams(credential, timestamp, expires_in) ==
    ("X-Amz-Algorithm" :> "AWS4-HMAC-SHA256") @@
    ("X-Amz-Credential" :> credential) @@
    ("X-Amz-Date" :> timestamp) @@
    ("X-Amz-Expires" :> str(expires_in)) @@
    ("X-Amz-SignedHeaders" :> "host")

\* host = f"{bucket_name}.s3.{region}.amazonaws.com"
Host(bucket_name, region) == bucket_name \o ".s3." \o region \o ".amazonaws.com"

\* url = f"https://{host}/{encoded_key}"
Url(host, encoded_key) == "https://" \o host \o "/" \o encoded_key

\* canonical_query = '&'.join([f"{k}={quote(str(v), safe='')}"
\*                             for k, v in sorted(query_params.items())])
CanonicalQuery(query_params) ==
    LET ks == SortedKeys(DOMAIN query_params)
    IN  join("&", [i \in 1..Len(ks) |-> ks[i] \o "=" \o quote(query_params[ks[i]])])

\* canonical_request = f"PUT\n/{encoded_key}\n{canonical_query}\nhost:{host}\n\nhost\nUNSIGNED-PAYLOAD"
CanonicalRequest(encoded_key, canonical_query, host) ==
    "PUT\n/" \o encoded_key \o "\n" \o canonical_query \o "\nhost:" \o host \o
    "\n\nhost\nUNSIGNED-PAYLOAD"

\* CredentialScope with the region and the service exchanged
CredentialScope_swapped(date, region) == date \o "/s3/" \o region \o "/aws4_request"

\* credential_scope = f"{date}/{region}/s3/aws4_request"
CredentialScope(date, region) == date \o "/" \o region \o "/s3/aws4_request"

\* string_to_sign = f"AWS4-HMAC-SHA256\n{timestamp}\n{credential_scope}\n{sha256(canonical_request).hexdigest()}"
StringToSign(timestamp, credential_scope, canonical_request) ==
    "AWS4-HMAC-SHA256\n" \o timestamp \o "\n" \o credential_scope \o "\n" \o
    hexdigest(sha256(canonical_request))

\* signature = hmac.new(signing_key, string_to_sign, sha256).hexdigest()
Signature(signing_key, string_to_sign) == hexdigest(hmac_new(signing_key, string_to_sign))

\* query_params['X-Amz-Signature'] = signature
AddSignature(query_params, signature) == ("X-Amz-Signature" :> signature) @@ query_params

\* FinalQuery with every value percent-encoded a second time
FinalQuery_reencoded(query_params) ==
    LET ks == SortedKeys(DOMAIN query_params)
    IN  join("&", [i \in 1..Len(ks) |->
                      ks[i] \o "=" \o quote(quote(query_params[ks[i]]))])

\* FinalQuery with the signature appended after the signed parameters
FinalQuery_appended(query_params) ==
    LET ks == SortedKeys(DOMAIN query_params \ {"X-Amz-Signature"})
    IN  join("&", [i \in 1..Len(ks) |-> ks[i] \o "=" \o quote(query_params[ks[i]])])
        \o "&X-Amz-Signature=" \o quote(query_params["X-Amz-Signature"])

\* final_query = '&'.join([f"{k}={quote(str(v), safe='')}"
\*                         for k, v in sorted(query_params.items())])
FinalQuery(query_params) ==
    LET ks == SortedKeys(DOMAIN query_params)
    IN  join("&", [i \in 1..Len(ks) |-> ks[i] \o "=" \o quote(query_params[ks[i]])])

\* final_url = f"{url}?{final_query}"
FinalUrl(url, final_query) == url \o "?" \o final_query

\* the try block raises when a str it encodes holds a surrogate
Raises(bucket_name, object_key, access_key, secret_key, region) ==
    ~ /\ Encodable(object_key)
      /\ Encodable(access_key)
      /\ Encodable(region)
      /\ Encodable(bucket_name)
      /\ Encodable(secret_key)

\* the locals of a run whose try block raised: nothing was built
NoFrame ==
    [raised |-> TRUE, encoded_key |-> "", timestamp |-> "", date |-> "",
     credential |-> "", host |-> "", canonical_query |-> "",
     canonical_request |-> "", credential_scope |-> "", string_to_sign |-> "",
     signing_key |-> "", signature |-> "", final_query |-> "", final_url |-> ""]

\* the locals of one run of generate_presigned_url when the wall clock has
\* advanced t seconds
generate_presigned_url(bucket_name, object_key, access_key, secret_key, region, expires_in, t) ==
    LET encoded_key == EncodedKey(object_key)
        timestamp == Timestamp(t)
        date == Date(timestamp)
        credential == Credential(access_key, date, region)
        query_params == QueryParams(credential, timestamp, expires_in)
        host == Host(bucket_name, region)
        url == Url(host, encoded_key)
        canonical_query == CanonicalQuery(query_params)
        canonical_request == CanonicalRequest(encoded_key, canonical_query, host)
        credential_scope == CredentialScope(date, region)
        string_to_sign == StringToSign(timestamp, credential_scope, canonical_request)
        signing_key == get_signing_key(secret_key, date, region, "s3")
        signature == Signature(signing_key, string_to_sign)
        final_query == FinalQuery(AddSignature(query_params, signature))
        final_url == FinalUrl(url, final_query)
    IN  IF Raises(bucket_name, object_key, access_key, secret_key, region)
        THEN NoFrame
        ELSE [raised |-> FALSE, encoded_key |-> encoded_key, timestamp |-> timestamp,
              date |-> date, credential |-> credential, host |-> host,
              canonical_query |-> canonical_query,
              canonical_request |-> canonical_request,
              credential_scope |-> credential_scope,
              string_to_sign |-> string_to_sign, signing_key |-> signing_key,
              signature |-> signature, final_query |-> final_query,
              final_url |-> final_url]

\* what the function returns: final_url, or None from the except branch
Returned(f) == [none |-> f.raised, url |-> f.final_url]

(* ------------------- module constants and credentials ----------------- *)

\* d.get(key, default) / os.getenv(key, default) on a dict d
get(d, key, default) == IF key \in DOMAIN d THEN d[key] ELSE default

\* an empty dict
EmptyDict == [k \in {} |-> ""]

\* a session that holds no aws_* entry
NoSession == EmptyDict

\* an environment that sets none of the AWS variables
NoEnviron == EmptyDict

\* no config_local module: the import raises ImportError
NoConfigLocal == [present |-> FALSE, values |-> EmptyDict]

\* the constants AWS_ACCESS_KEY_ID, AWS_SECRET_ACCESS_KEY, AWS_REGION and
\* S3_BUCKET_NAME as the module sets them when it is imported
ImportConstants(config_local, environ) ==
    IF config_local.present
    THEN config_local.values
    ELSE ("AWS_ACCESS_KEY_ID" :> get(environ, "AWS_ACCESS_KEY_ID", "YOUR_AWS_ACCESS_KEY_ID")) @@
         ("AWS_SECRET_ACCESS_KEY" :>
              get(environ, "AWS_SECRET_ACCESS_KEY", "YOUR_AWS_SECRET_ACCESS_KEY")) @@
         ("AWS_REGION" :> get(environ, "AWS_REGION", "us-west-2")) @@
         ("S3_BUCKET_NAME" :> get(environ, "S3_BUCKET_NAME", "your-bucket-name"))

\* all([...]) over str values: every one is non-empty
all(values) == \A i \in 1..Len(values) : values[i] # ""

\* get_aws_credentials with the configured constants tried before the session
get_aws_credentials_constants_first(session, constants, environ) ==
    LET access_key == get(session, "aws_access_key", "")
        secret_key == get(session, "aws_secret_key", "")
        bucket_name == get(session, "aws_bucket_name", "")
    IN  IF /\ constants["AWS_ACCESS_KEY_ID"] # "YOUR_AWS_ACCESS_KEY_ID"
           /\ constants["AWS_SECRET_ACCESS_KEY"] # "YOUR_AWS_SECRET_ACCESS_KEY"
           /\ constants["S3_BUCKET_NAME"] # "your-bucket-name"
        THEN [creds |-> [access_key |-> constants["AWS_ACCESS_KEY_ID"],
                         secret_key |-> constants["AWS_SECRET_ACCESS_KEY"],
                         region |-> constants["AWS_REGION"],
                         bucket_name |-> constants["S3_BUCKET_NAME"]],
              session_state |-> session]
        ELSE IF access_key # "" /\ secret_key # "" /\ bucket_name # ""
        THEN [creds |-> [access_key |-> access_key, secret_key |-> secret_key,
                         region |-> get(session, "aws_region", constants["AWS_REGION"]),
                         bucket_name |-> bucket_name],
              session_state |-> session]
        ELSE [creds |-> [access_key |-> "", secret_key |-> "",
                         region |-> "us-west-2", bucket_name |-> ""],
              session_state |-> session]

\* get_aws_credentials(): the dict it returns and the session state it leaves.
\* An entry that session_state lacks reads as None, which is falsy like ''
\* and is only ever tested, so it is written "" here.
get_aws_credentials(session, constants, environ) ==
    LET access_key == get(session, "aws_access_key", "")
        secret_key == get(session, "aws_secret_key", "")
        region == get(session, "aws_region", constants["AWS_REGION"])
        bucket_name == get(session, "aws_bucket_name", "")
        env_creds == [access_key |-> get(environ, "AWS_ACCESS_KEY_ID", ""),
                      secret_key |-> get(environ, "AWS_SECRET_ACCESS_KEY", ""),
                      region |-> get(environ, "AWS_REGION", "us-west-2"),
                      bucket_name |-> get(environ, "S3_BUCKET_NAME", "")]
    IN  IF access_key # "" /\ secret_key # "" /\ bucket_name # ""
        THEN [creds |-> [access_key |-> access_key, secret_key |-> secret_key,
                         region |-> region, bucket_name |-> bucket_name],
              session_state |-> session]
        ELSE IF /\ constants["AWS_ACCESS_KEY_ID"] # "YOUR_AWS_ACCESS_KEY_ID"
                /\ constants["AWS_SECRET_ACCESS_KEY"] # "YOUR_AWS_SECRET_ACCESS_KEY"
                /\ constants["S3_BUCKET_NAME"] # "your-bucket-name"
        THEN [creds |-> [access_key |-> constants["AWS_ACCESS_KEY_ID"],
                         secret_key |-> constants["AWS_SECRET_ACCESS_KEY"],
                         region |-> constants["AWS_REGION"],
                         bucket_name |-> constants["S3_BUCKET_NAME"]],
              session_state |-> session]
        ELSE IF all(<<env_creds.access_key, env_creds.secret_key, env_creds.bucket_name>>)
        THEN [creds |-> env_creds,
              session_state |->
                  ("aws_access_key" :> env_creds.access_key) @@
                  ("aws_secret_key" :> env_creds.secret_key) @@
                  ("aws_region" :> env_creds.region) @@
                  ("aws_bucket_name" :> env_creds.bucket_name) @@ session]
        ELSE [creds |-> [access_key |-> "", secret_key |-> "",
                         region |-> "us-west-2", bucket_name |-> ""],
              session_state |-> session]

\* a run of main() that has not happened
NoRun == [page |-> "", cred_calls |-> <<>>, gen_calls |-> <<>>, uploads |-> <<>>]

(* ------------------------------- inputs -------------------------------- *)

Buckets == {"example-bucket"}

ObjectKeys ==
    {"test.txt", "my file+é.txt", "uploads/20240101_000000_1a2b3c4d_a.csv",
     "folder/sub folder/n€~.csv", "A-z_0.9~", "bad�name"}

AccessKeys == {"", "AKIDEXAMPLE"}

SecretKeys == {"", "wJalrXUt"}

Regions == {"us-west-2", "us-east-1"}

ExpiresIn == {0, 1, 3600, 604800, 604801}

\* services get_signing_key is applied to; generate_presigned_url passes 's3'
Services == {"s3", "ec2"}

(* ---------------------------- state machine ---------------------------- *)

VARIABLES
    clock,    \* seconds the wall clock has advanced
    args,     \* the arguments the caller passes to generate_presigned_url
    called,   \* whether generate_presigned_url has run
    frame,    \* the locals of its latest run
    ret,      \* what its latest run returned
    first,    \* history: the clock, timestamp and return value of the first Generate
    session_state,  \* st.session_state: the aws_* entries of the browser session
    deployment,     \* the module constants, os.environ and st.__version__
    run             \* what the latest run of main() showed and called

vars == <<clock, args, called, frame, ret, first, session_state, deployment, run>>

\* the variables of the application around generate_presigned_url
appvars == <<session_state, deployment, run>>

Init ==
    /\ clock = 0
    /\ args \in [bucket_name : Buckets, object_key : ObjectKeys,
                 access_key : AccessKeys, secret_key : SecretKeys,
                 region : Regions, expires_in : ExpiresIn]
    /\ called = FALSE
    /\ frame = NoFrame
    /\ ret = Returned(NoFrame)
    /\ first = [set |-> FALSE, clock |-> 0, timestamp |-> "", ret |-> Returned(NoFrame)]
    /\ session_state = NoSession
    /\ deployment = [constants |-> ImportConstants(NoConfigLocal, NoEnviron),
                     environ |-> NoEnviron, streamlit_version |-> "1.26.0"]
    /\ run = NoRun

\* a caller runs generate_presigned_url(**args)
Generate ==
    LET f == generate_presigned_url(args.bucket_name, args.object_key, args.access_key,
                                    args.secret_key, args.region, args.expires_in, clock)
    IN  /\ frame' = f
        /\ ret' = Returned(f)
        /\ called' = TRUE
        /\ first' = IF first.set THEN first
                    ELSE [set |-> TRUE, clock |-> clock, timestamp |-> f.timestamp,
                          ret |-> Returned(f)]
        /\ UNCHANGED <<clock, args>>
        /\ UNCHANGED appvars

\* a second passes on the wall clock
Tick ==
    /\ clock < MaxTicks
    /\ clock' = clock + 1
    /\ UNCHANGED <<args, called, frame, ret, first>>
    /\ UNCHANGED appvars

Next == Generate \/ Tick

Spec == Init /\ [][Next]_vars

(* ----------------- reading a URL and a canonical request --------------- *)

\* the position of the first occurrence of the character c in s, 0 if none
IndexOf(s, c) ==
    LET P == {i \in 1..Len(s) : CharAt(s, i) = c}
    IN  IF P = {} THEN 0 ELSE CHOOSE i \in P : \A j \in P : i <= j

\* s.split(c) for a separator of one character
RECURSIVE Split(_, _)
Split(s, c) ==
    LET i == IndexOf(s, c)
    IN  IF i = 0 THEN <<s>>
        ELSE <<SubSeq(s, 1, i - 1)>> \o Split(SubSeq(s, i + 1, Len(s)), c)

StartsWith(s, prefix) ==
    /\ Len(s) >= Len(prefix)
    /\ SubSeq(s, 1, Len(prefix)) = prefix

\* the part of s after the first occurrence of c
After(s, c) == SubSeq(s, IndexOf(s, c) + 1, Len(s))

\* the part of s before the first occurrence of c
Before(s, c) == SubSeq(s, 1, IndexOf(s, c) - 1)

\* the query string of a URL: what follows its first '?'
UrlQuery(u) == After(u, "?")

\* the path of a URL https://<host>/<path>?<query>, without its leading '/'
UrlPath(u) == After(After(After(Before(u, "?"), "/"), "/"), "/")

\* the name=value pieces of a query string
QueryPieces(q) == Split(q, "&")

\* the lines of the canonical request or of the string to sign
Lines(s) == Split(s, "\n")

\* the run returned a URL
ReturnedUrl == called /\ ~ret.none

(* ------------------------------- claims -------------------------------- *)

\* C1: the query string of the returned URL, with the X-Amz-Signature
\* parameter removed, is identical to the canonical query string that was
\* placed in the canonical request (its third line) and signed.
C1_QueryMatchesSigned ==
    ReturnedUrl =>
        LET pieces == QueryPieces(UrlQuery(ret.url))
            kept == SelectSeq(pieces, LAMBDA p : ~StartsWith(p, "X-Amz-Signature="))
        IN  /\ Len(kept) = Len(pieces) - 1
            /\ join("&", kept) = Lines(frame.canonical_request)[3]
            /\ frame.string_to_sign =
                   "AWS4-HMAC-SHA256\n" \o frame.timestamp \o "\n" \o
                   frame.credential_scope \o "\n" \o
                   hexdigest(sha256(frame.canonical_request))

\* a URL was returned whose signed query holds a percent-encoded value
C1_Witness ==
    /\ ReturnedUrl
    /\ args.access_key # ""
    /\ IndexOf(Lines(frame.canonical_request)[3], "%") > 0

\* C2 as stated: X-Amz-Signature is the final query parameter, so the final
\* query string is the signed canonical query string followed by
\* '&X-Amz-Signature=<signature>'.
C2_SignatureLast ==
    ReturnedUrl =>
        UrlQuery(ret.url) =
            Lines(frame.canonical_request)[3] \o "&X-Amz-Signature=" \o frame.signature

\* C2 amended: the parameters of the final query string are in ascending
\* order of name, so X-Amz-Signature is the fifth of six, after X-Amz-Expires
\* and before X-Amz-SignedHeaders; its value is the signature.
C2_SignatureSorted ==
    ReturnedUrl =>
        LET pieces == QueryPieces(UrlQuery(ret.url))
        IN  /\ [i \in 1..Len(pieces) |-> Before(pieces[i], "=")] =
                   <<"X-Amz-Algorithm", "X-Amz-Credential", "X-Amz-Date",
                     "X-Amz-Expires", "X-Amz-Signature", "X-Amz-SignedHeaders">>
            /\ After(pieces[5], "=") = frame.signature
            /\ pieces[6] = "X-Amz-SignedHeaders=host"

\* a URL was returned, signature included
C2_Witness ==
    /\ ReturnedUrl
    /\ frame.signature # ""
    /\ Len(QueryPieces(UrlQuery(ret.url))) = 6

\* C3: a URL is produced only when 1 <= expires_in <= 604800; outside that
\* range the call yields an error and no URL.
C3_ExpirationBound ==
    ReturnedUrl => (1 <= args.expires_in /\ args.expires_in <= 604800)

\* C4: with an empty access key or an empty secret key no URL is returned.
C4_MissingCredential ==
    ReturnedUrl => (args.access_key # "" /\ args.secret_key # "")

\* C5: the percent-encoded key in the canonical URI line of the canonical
\* request is identical to the one in the path of the returned URL; in it
\* only A-Z a-z 0-9 - _ . ~ pass through, a space is %20 and a '+' is %2B.
C5_Unreserved ==
    {CharAt("ABCDEFGHIJKLMNOPQRSTUVWXYZabcdefghijklmnopqrstuvwxyz0123456789-_.~", i) :
        i \in 1..66}

C5_PercentEncoded ==
    (" " :> "%20") @@ ("+" :> "%2B") @@ ("/" :> "%2F") @@
    ("é" :> "%C3%A9") @@ ("€" :> "%E2%82%AC")

C5_KeyEncoding ==
    ReturnedUrl =>
        LET key == args.object_key
            uri == Lines(frame.canonical_request)[2]
            expected ==
                Concat([i \in 1..Len(key) |->
                           IF CharAt(key, i) \in C5_Unreserved THEN CharAt(key, i)
                           ELSE C5_PercentEncoded[CharAt(key, i)]], 1, Len(key))
        IN  /\ uri = "/" \o UrlPath(ret.url)
            /\ UrlPath(ret.url) = expected

\* a URL was returned for a key with a space, a '+' and a non-ASCII character
C5_Witness ==
    /\ ReturnedUrl
    /\ IndexOf(args.object_key, " ") > 0
    /\ IndexOf(args.object_key, "+") > 0
    /\ IndexOf(args.object_key, "é") > 0
    /\ IndexOf(UrlPath(ret.url), "%") > 0

\* C6: every '/' that separates two segments of the object key is a literal
\* '/' in the canonical URI and in the path of the returned URL, and each
\* segment is percent-encoded on its own.
C6_SeparatorsPreserved ==
    ReturnedUrl =>
        LET segments == Split(args.object_key, "/")
            inPath == Split(UrlPath(ret.url), "/")
            inUri == Split(After(Lines(frame.canonical_request)[2], "/"), "/")
        IN  /\ inPath = [i \in 1..Len(segments) |-> quote(segments[i])]
            /\ inUri = inPath

\* C7 as stated: every input of a call, the timestamp included, is supplied
\* by the caller, so two calls with identical caller-supplied arguments
\* return identical URLs.
C7_CallerFixesTimestamp ==
    (called /\ first.set) => ret = first.ret

\* (what the code does guarantee: two runs on the same arguments that read
\* the same second from the wall clock return the same value)
SameSecondSameUrl ==
    (called /\ first.set /\ first.timestamp = frame.timestamp) => ret = first.ret

(* ------------------------ reading a query string ----------------------- *)

\* the value of the parameter called name in the query string q
ParamValue(q, name) ==
    LET pieces == QueryPieces(q)
        i == CHOOSE j \in 1..Len(pieces) : StartsWith(pieces[j], name \o "=")
    IN  After(pieces[i], "=")

\* the character with code n
chr(n) == CHOOSE c \in DOMAIN ord : ord[c] = n

\* the value of a hexadecimal digit
HexVal(h) == IndexOf("0123456789ABCDEF", h) - 1

\* urllib.parse.unquote of a string whose escapes are single bytes
RECURSIVE unquote(_)
unquote(s) ==
    LET i == IndexOf(s, "%")
    IN  IF i = 0 THEN s
        ELSE SubSeq(s, 1, i - 1)
             \o chr(16 * HexVal(CharAt(s, i + 1)) + HexVal(CharAt(s, i + 2)))
             \o unquote(SubSeq(s, i + 3, Len(s)))

\* C8: the date, region and service that key the signing-key derivation are
\* those of the credential-scope line of the string to sign and of the
\* X-Amz-Credential parameter (after the access key), the terminator is
\* aws4_request in all three, and the date is the first 8 characters of the
\* one timestamp that is X-Amz-Date and the second line of the string to sign.
C8_ScopeConsistent ==
    ReturnedUrl =>
        LET sts == Lines(frame.string_to_sign)
            scope == Split(sts[3], "/")
            q == UrlQuery(ret.url)
            xdate == ParamValue(q, "X-Amz-Date")
        IN  /\ Len(sts) = 4
            /\ Len(scope) = 4
            /\ frame.signing_key =
                   hmac_new(hmac_new(hmac_new(hmac_new("AWS4" \o args.secret_key,
                       scope[1]), scope[2]), scope[3]), scope[4])
            /\ scope[3] = "s3"
            /\ scope[4] = "aws4_request"
            /\ unquote(ParamValue(q, "X-Amz-Credential")) = args.access_key \o "/" \o sts[3]
            /\ sts[2] = xdate
            /\ Len(xdate) = 16
            /\ scope[1] = SubSeq(xdate, 1, 8)

\* a URL was returned for a non-empty access key, on either side of midnight
C8_Witness ==
    /\ ReturnedUrl
    /\ args.access_key # ""
    /\ clock > 0
    /\ frame.date = "20240102"

\* C9: the signing key is the four-stage chain keyed by 'AWS4' + secret key
\* over the date, the region, the service and 'aws4_request' in that order,
\* and the signature in the URL is the lowercase hexadecimal keyed hash of
\* the string to sign under that final key.
C9_KeyChain ==
    ReturnedUrl =>
        LET k_seed == "AWS4" \o args.secret_key
            k1 == hmac_new(k_seed, SubSeq(frame.timestamp, 1, 8))
            k2 == hmac_new(k1, args.region)
            k3 == hmac_new(k2, "s3")
            k4 == hmac_new(k3, "aws4_request")
            sig == ParamValue(UrlQuery(ret.url), "X-Amz-Signature")
        IN  /\ frame.signing_key = k4
            /\ sig = hexdigest(hmac_new(k4, frame.string_to_sign))
            /\ \A i \in 1..Len(sig) :
                   CharAt(sig, i) \in {CharAt("0123456789abcdef", j) : j \in 1..16}

\* a URL was returned that was signed with a non-empty secret
C9_Witness ==
    /\ ReturnedUrl
    /\ args.secret_key # ""
    /\ Len(ParamValue(UrlQuery(ret.url), "X-Amz-Signature")) > 0

\* C10: signing the same string to sign with the other inputs unchanged but
\* another region, or another service, gives another signing key and another
\* signature.
C10_ScopeIsolation ==
    ReturnedUrl =>
        /\ \A r \in Regions \ {args.region} :
               LET k == get_signing_key(args.secret_key, frame.date, r, "s3")
               IN  /\ k # frame.signing_key
                   /\ Signature(k, frame.string_to_sign) # frame.signature
        /\ \A sv \in Services \ {"s3"} :
               LET k == get_signing_key(args.secret_key, frame.date, args.region, sv)
               IN  /\ k # frame.signing_key
                   /\ Signature(k, frame.string_to_sign) # frame.signature

\* a URL was returned, and there are another region and another service
C10_Witness ==
    /\ ReturnedUrl
    /\ Regions \ {args.region} # {}
    /\ Services \ {"s3"} # {}
    /\ frame.signature # ""

(* ------------------------- main(): its helpers -------------------------- *)

\* the position of the last occurrence of the character c in s, 0 if none
LastIndexOf(s, c) ==
    LET P == {i \in 1..Len(s) : CharAt(s, i) = c}
    IN  IF P = {} THEN 0 ELSE CHOOSE i \in P : \A j \in P : i >= j

\* s.rstrip(c)
RECURSIVE rstrip(_, _)
rstrip(s, c) ==
    IF s # "" /\ CharAt(s, Len(s)) = c THEN rstrip(SubSeq(s, 1, Len(s) - 1), c) ELSE s

\* os.path.splitext(p): the extension starts at the last dot of the last
\* path component, leading dots of that component not counted
splitext(p) ==
    LET sep == LastIndexOf(p, "/")
        dot == LastIndexOf(p, ".")
    IN  IF dot > sep /\ \E i \in (sep + 1)..(dot - 1) : CharAt(p, i) # "."
        THEN <<SubSeq(p, 1, dot - 1), SubSeq(p, dot, Len(p))>>
        ELSE <<p, "">>

\* generate_unique_filename(original_filename) when the wall clock has advanced
\* t seconds and uuid4() starts with unique_id; local time is taken to be UTC
generate_unique_filename(original_filename, t, unique_id) ==
    LET dt == utcnow(t)
        timestamp ==
            ZeroPad(dt.year, 4) \o ZeroPad(dt.month, 2) \o ZeroPad(dt.day, 2) \o "_" \o
            ZeroPad(dt.hour, 2) \o ZeroPad(dt.minute, 2) \o ZeroPad(dt.second, 2)
        parts == splitext(original_filename)
    IN  timestamp \o "_" \o unique_id \o "_" \o parts[1] \o parts[2]

\* int(x) for a string of decimal digits
RECURSIVE int(_)
int(x) ==
    IF x = "" THEN 0
    ELSE 10 * int(SubSeq(x, 1, Len(x) - 1)) + (IndexOf("0123456789", CharAt(x, Len(x))) - 1)

\* has_file_uploader, from st.__version__
has_file_uploader(streamlit_version) ==
    LET pieces == Split(streamlit_version, ".")
        version_parts == [i \in 1..Len(pieces) |-> int(pieces[i])]
    IN  (version_parts[1] > 1) \/ (version_parts[1] = 1 /\ version_parts[2] >= 26)

\* 'if presigned_url:' always passes
PresignedUrlTruthy_always(r) == TRUE

\* 'if presigned_url:' -- neither None nor ''
PresignedUrlTruthy(r) == ~r.none /\ r.url # ""

\* all([creds['access_key'], creds['secret_key'], creds['bucket_name']])
CredentialsComplete(creds) ==
    all(<<creds.access_key, creds.secret_key, creds.bucket_name>>)

\* one call generate_presigned_url(bucket_name, file_key, access_key,
\* secret_key, region) by main(), expires_in left at its default
GenerateFor(creds, file_key, t) ==
    LET f == generate_presigned_url(creds.bucket_name, file_key, creds.access_key,
                                    creds.secret_key, creds.region, 3600, t)
    IN  [args |-> [bucket_name |-> creds.bucket_name, object_key |-> file_key,
                   access_key |-> creds.access_key, secret_key |-> creds.secret_key,
                   region |-> creds.region, expires_in |-> 3600],
         frame |-> f,
         ret |-> Returned(f)]

\* the calls upload_file_to_s3(presigned_url, ...) that follow the calls
\* gens[i], gens[i+1], ...; oks[i] tells whether the PUT for gens[i] answers
\* 200, which is what upload_file_to_s3 returns
RECURSIVE UploadsFor(_, _, _)
UploadsFor(gens, oks, i) ==
    IF i > Len(gens) THEN <<>>
    ELSE (IF PresignedUrlTruthy(gens[i].ret)
          THEN <<[presigned_url |-> gens[i].ret.url, success |-> oks[i]]>>
          ELSE <<>>) \o UploadsFor(gens, oks, i + 1)

(* ---------------------------- main(): inputs --------------------------- *)

Template ==
    ("AWS_ACCESS_KEY_ID" :> "YOUR_AWS_ACCESS_KEY_ID") @@
    ("AWS_SECRET_ACCESS_KEY" :> "YOUR_AWS_SECRET_ACCESS_KEY") @@
    ("AWS_REGION" :> "us-west-2") @@
    ("S3_BUCKET_NAME" :> "your-bucket-name")

\* config_local.py: absent, a copy of the template, or filled in
ConfigLocals ==
    {NoConfigLocal,
     [present |-> TRUE, values |-> Template],
     [present |-> TRUE,
      values |-> ("AWS_ACCESS_KEY_ID" :> "AKIDCONFIG") @@
                 ("AWS_SECRET_ACCESS_KEY" :> "configSecret") @@
                 ("AWS_REGION" :> "eu-west-1") @@
                 ("S3_BUCKET_NAME" :> "config-bucket")]}

\* os.environ: nothing set, everything but the region set, the access key
\* alone set, or the access key set to ''
EnvironFull ==
    ("AWS_ACCESS_KEY_ID" :> "AKIDENV") @@ ("AWS_SECRET_ACCESS_KEY" :> "envSecret") @@
    ("S3_BUCKET_NAME" :> "env-bucket")

EnvironPartial == ("AWS_ACCESS_KEY_ID" :> "AKIDENV")

EnvironBlank ==
    ("AWS_ACCESS_KEY_ID" :> "") @@ ("AWS_SECRET_ACCESS_KEY" :> "envSecret") @@
    ("AWS_REGION" :> "us-east-1") @@ ("S3_BUCKET_NAME" :> "env-bucket")

Environs == {NoEnviron, EnvironFull, EnvironPartial, EnvironBlank}

\* the deployments a session opens on: config_local.py and os.environ
Deployments == ConfigLocals \X Environs

StreamlitVersions == {"1.25.0", "1.26.0"}

\* what the user types in the credential form
ManualAccessKeys == {"", "AKIDMANUAL"}
ManualSecretKeys == {"", "manualSecret"}
ManualRegions == {"us-west-2", "eu-central-1"}
ManualBuckets == {"", "mquarfot-dev"}

\* what the user types in the text-content form
Filenames == {"", "data 1.csv"}
FilePaths == {"", "folder/subfolder/"}
FileContents == {"", "a,b"}

\* what st.file_uploader returns: the names of the chosen files
UploadedFiles == {<<>>, <<"report.csv">>, <<"report.csv", "bad�.txt">>}

CustomPaths == {"", "folder/sub folder/x.txt"}

\* the first 8 characters of str(uuid.uuid4())
UniqueIds == {"1a2b3c4d"}

\* the button of the file page that was clicked in a run, if any: 'Upload' of
\* file i, with the custom path typed next to it, or 'Upload All Files',
\* which is shown for more than one file
Clicks(uploaded_files) ==
    {[kind |-> "none", i |-> 0, custom_path |-> ""]}
    \cup {[kind |-> "one", i |-> i, custom_path |-> p] :
             i \in 1..Len(uploaded_files), p \in CustomPaths}
    \cup (IF Len(uploaded_files) > 1
          THEN {[kind |-> "all", i |-> 0, custom_path |-> ""]} ELSE {})

(* --------------------------- main(): the runs -------------------------- *)

\* the first statement of main(): creds = get_aws_credentials()
CredsOfRun ==
    get_aws_credentials(session_state, deployment.constants, deployment.environ)

\* the record of one call of get_aws_credentials: the session state it
\* found and the dict it returned
CredCall(session, c) == [session |-> session, returned |-> c.creds]

\* a browser session opens on some deployment of the application
InitApp ==
    /\ clock = 0
    /\ args = [bucket_name |-> "", object_key |-> "", access_key |-> "",
               secret_key |-> "", region |-> "", expires_in |-> 3600]
    /\ called = FALSE
    /\ frame = NoFrame
    /\ ret = Returned(NoFrame)
    /\ first = [set |-> FALSE, clock |-> 0, timestamp |-> "", ret |-> Returned(NoFrame)]
    /\ session_state = NoSession
    /\ \E d \in Deployments, version \in StreamlitVersions :
           deployment = [constants |-> ImportConstants(d[1], d[2]),
                         environ |-> d[2], streamlit_version |-> version]
    /\ run = NoRun

\* a run of main() that finds the credentials incomplete: it shows the
\* credential form, stores what 'Save Credentials' submits, and returns
MainCredentialForm ==
    LET c == CredsOfRun
    IN  /\ ~CredentialsComplete(c.creds)
        /\ \E clicked \in BOOLEAN, manual_access_key \in ManualAccessKeys,
              manual_secret_key \in ManualSecretKeys, manual_region \in ManualRegions,
              manual_bucket \in ManualBuckets :
               session_state' =
                   IF clicked /\ all(<<manual_access_key, manual_secret_key, manual_bucket>>)
                   THEN ("aws_access_key" :> manual_access_key) @@
                        ("aws_secret_key" :> manual_secret_key) @@
                        ("aws_region" :> manual_region) @@
                        ("aws_bucket_name" :> manual_bucket) @@ c.session_state
                   ELSE c.session_state
        /\ run' = [page |-> "credentials",
                   cred_calls |-> <<CredCall(session_state, c)>>,
                   gen_calls |-> <<>>, uploads |-> <<>>]
        /\ UNCHANGED <<clock, args, called, frame, ret, first, deployment>>

\* a run of main() on a Streamlit older than 1.26, credentials complete: the
\* text-content page, and the upload when 'Upload Text Content' was clicked
\* with a filename and a content
MainTextUpload ==
    LET c == CredsOfRun
    IN  /\ CredentialsComplete(c.creds)
        /\ ~has_file_uploader(deployment.streamlit_version)
        /\ \E clicked \in BOOLEAN, filename \in Filenames, file_path \in FilePaths,
              file_content_text \in FileContents, unique_id \in UniqueIds :
               IF clicked /\ filename # "" /\ file_content_text # ""
               THEN LET file_key ==
                            IF file_path # ""
                            THEN rstrip(file_path, "/") \o "/" \o filename
                            ELSE "uploads/" \o
                                 generate_unique_filename(filename, clock, unique_id)
                        credentials ==
                            get_aws_credentials(c.session_state, deployment.constants,
                                                deployment.environ)
                    IN  \E g \in {GenerateFor(credentials.creds, file_key, clock)} :
                        /\ args' = g.args
                        /\ frame' = g.frame
                        /\ ret' = g.ret
                        /\ called' = TRUE
                        /\ session_state' = credentials.session_state
                        /\ \E oks \in [{1} -> BOOLEAN] :
                           run' = [page |-> "text",
                                   cred_calls |->
                                       <<CredCall(session_state, c),
                                         CredCall(c.session_state, credentials)>>,
                                   gen_calls |-> <<[args |-> g.args, ret |-> g.ret]>>,
                                   uploads |-> UploadsFor(<<g>>, oks, 1)]
               ELSE /\ session_state' = c.session_state
                    /\ run' = [page |-> "text",
                               cred_calls |-> <<CredCall(session_state, c)>>,
                               gen_calls |-> <<>>, uploads |-> <<>>]
                    /\ UNCHANGED <<args, called, frame, ret>>
        /\ UNCHANGED <<clock, first, deployment>>

\* a run of main() on Streamlit 1.26 or later, credentials complete: the file
\* page, and the uploads of the button that was clicked
MainFileUpload ==
    LET c == CredsOfRun
    IN  /\ CredentialsComplete(c.creds)
        /\ has_file_uploader(deployment.streamlit_version)
        /\ session_state' = c.session_state
        /\ \E uploaded_files \in UploadedFiles, unique_id \in UniqueIds :
             \E click \in Clicks(uploaded_files) :
               LET unique(i) ==
                       "uploads/" \o
                       generate_unique_filename(uploaded_files[i], clock, unique_id)
                   file_keys ==
                       CASE click.kind = "none" -> <<>>
                         [] click.kind = "one" ->
                               <<IF click.custom_path # "" THEN click.custom_path
                                 ELSE unique(click.i)>>
                         [] click.kind = "all" ->
                               [i \in 1..Len(uploaded_files) |-> unique(i)]
               IN  \E gens \in {[i \in 1..Len(file_keys) |->
                                    GenerateFor(c.creds, file_keys[i], clock)]} :
                   /\ IF gens = <<>>
                      THEN UNCHANGED <<args, called, frame, ret>>
                      ELSE /\ args' = gens[Len(gens)].args
                           /\ frame' = gens[Len(gens)].frame
                           /\ ret' = gens[Len(gens)].ret
                           /\ called' = TRUE
                   /\ \E oks \in [1..Len(gens) -> BOOLEAN] :
                      run' = [page |-> "files",
                              cred_calls |-> <<CredCall(session_state, c)>>,
                              gen_calls |-> [i \in 1..Len(gens) |->
                                                [args |-> gens[i].args,
                                                 ret |-> gens[i].ret]],
                              uploads |-> UploadsFor(gens, oks, 1)]
        /\ UNCHANGED <<clock, first, deployment>>

NextApp == MainCredentialForm \/ MainTextUpload \/ MainFileUpload \/ Tick

SpecApp == InitApp /\ [][NextApp]_vars

(* --------------------------- claims on main() -------------------------- *)

\* the session state ss holds a non-empty access key, secret key and bucket
C11_SessionHolds(ss) ==
    /\ {"aws_access_key", "aws_secret_key", "aws_bucket_name"} \subseteq DOMAIN ss
    /\ ss["aws_access_key"] # ""
    /\ ss["aws_secret_key"] # ""
    /\ ss["aws_bucket_name"] # ""

\* the four entries of the session state ss as a credentials dict
C11_SessionCreds(ss) ==
    [access_key |-> ss["aws_access_key"], secret_key |-> ss["aws_secret_key"],
     region |-> ss["aws_region"], bucket_name |-> ss["aws_bucket_name"]]

\* what the claim says a call that finds the session state ss returns
C11_Expected(ss) ==
    LET K == deployment.constants
        E == deployment.environ
        set(name) == name \in DOMAIN E /\ E[name] # ""
    IN  IF C11_SessionHolds(ss) THEN C11_SessionCreds(ss)
        ELSE IF /\ K["AWS_ACCESS_KEY_ID"] # "YOUR_AWS_ACCESS_KEY_ID"
                /\ K["AWS_SECRET_ACCESS_KEY"] # "YOUR_AWS_SECRET_ACCESS_KEY"
                /\ K["S3_BUCKET_NAME"] # "your-bucket-name"
        THEN [access_key |-> K["AWS_ACCESS_KEY_ID"],
              secret_key |-> K["AWS_SECRET_ACCESS_KEY"],
              region |-> K["AWS_REGION"], bucket_name |-> K["S3_BUCKET_NAME"]]
        ELSE IF set("AWS_ACCESS_KEY_ID") /\ set("AWS_SECRET_ACCESS_KEY")
                /\ set("S3_BUCKET_NAME")
        THEN [access_key |-> E["AWS_ACCESS_KEY_ID"],
              secret_key |-> E["AWS_SECRET_ACCESS_KEY"],
              region |-> IF "AWS_REGION" \in DOMAIN E THEN E["AWS_REGION"]
                         ELSE "us-west-2",
              bucket_name |-> E["S3_BUCKET_NAME"]]
        ELSE [access_key |-> "", secret_key |-> "", region |-> "us-west-2",
              bucket_name |-> ""]

\* every call of get_aws_credentials in the latest run returned what the
\* priority order gives for the session state it found
C11_CallsFollowPriority ==
    \A i \in 1..Len(run.cred_calls) :
        run.cred_calls[i].returned = C11_Expected(run.cred_calls[i].session)

\* C11: once the session state holds a non-empty access key, secret key and
\* bucket name, it is left as it is and every later call of
\* get_aws_credentials returns exactly its access key, secret key, region
\* and bucket, whatever the constants and the environment; a call that does
\* not find them returns the configured constants when none of the three is
\* its placeholder, else the environment values when all three are
\* non-empty, else empty credentials.
C11_CredentialPriority ==
    [][ /\ (C11_SessionHolds(session_state) /\ run' # run) =>
               /\ session_state' = session_state
               /\ Len(run'.cred_calls) > 0
               /\ \A i \in 1..Len(run'.cred_calls) :
                      run'.cred_calls[i].returned = C11_SessionCreds(session_state)
        /\ C11_CallsFollowPriority' ]_vars

\* a run found credentials that 'Save Credentials' had stored in the
\* session, on a deployment whose constants are no placeholders, and
\* returned those of the session
C11_Witness ==
    /\ Len(run.cred_calls) > 0
    /\ C11_SessionHolds(run.cred_calls[1].session)
    /\ run.cred_calls[1].session["aws_access_key"] = "AKIDMANUAL"
    /\ run.cred_calls[1].returned.access_key = "AKIDMANUAL"
    /\ deployment.constants["AWS_ACCESS_KEY_ID"] = ""
    /\ deployment.constants["S3_BUCKET_NAME"] = "env-bucket"

\* C12: in every run of main(), generate_presigned_url is called only with a
\* non-empty access key, secret key and bucket name, upload_file_to_s3 only
\* with a URL that generate_presigned_url returned in that run (never None),
\* and a run that finds the credentials incomplete shows the credential form
\* and calls neither.
C12_MainCallsGuarded ==
    /\ \A i \in 1..Len(run.gen_calls) :
           /\ run.gen_calls[i].args.access_key # ""
           /\ run.gen_calls[i].args.secret_key # ""
           /\ run.gen_calls[i].args.bucket_name # ""
    /\ \A j \in 1..Len(run.uploads) :
           \E i \in 1..Len(run.gen_calls) :
               /\ ~run.gen_calls[i].ret.none
               /\ run.gen_calls[i].ret.url = run.uploads[j].presigned_url
    /\ Len(run.cred_calls) > 0 =>
           LET creds == run.cred_calls[1].returned
               incomplete == creds.access_key = "" \/ creds.secret_key = ""
                             \/ creds.bucket_name = ""
           IN  /\ incomplete <=> run.page = "credentials"
               /\ incomplete => (run.gen_calls = <<>> /\ run.uploads = <<>>)

\* 'Upload All Files' ran on two files: generate_presigned_url returned a URL
\* for one and None for the other, and one upload followed
C12_Witness ==
    /\ run.page = "files"
    /\ Len(run.gen_calls) = 2
    /\ \E i \in 1..2 : run.gen_calls[i].ret.none
    /\ Len(run.uploads) = 1
    /\ run.uploads[1].presigned_url # ""

=============================================================================
